---- MODULE Spec2Model ----
(***************************************************************************)
(* The graceful shutdown coordinator of @geeebe/service: graceful() and    *)
(* the Graceful wrapper (shutdown.ts), run on the single-threaded Node     *)
(* event loop.  One action is one turn of the loop: a listener, a timer    *)
(* callback, or the continuation of a settled completion.                  *)
(*                                                                         *)
(* Beside the coordinator (Spec, LiveSpec) the module holds the other      *)
(* components of the package, each with a specification of its own:        *)
(* Service.combine (CombineSpec), start() and stop() of KoaService and     *)
(* MonitorService (KoaSpec), graceful() with a callback left out           *)
(* (RunSpec), and the /ready endpoint (ReadySpec).                         *)
(*                                                                         *)
(* The runtime pieces the code relies on are modelled as the code meets    *)
(* them: process.once removes the listener before it runs; an exception    *)
(* escaping a listener or a timer callback is an uncaught exception; a     *)
(* rejected completion nobody handles is either only warned about or       *)
(* raised as an uncaught exception, depending on the runtime's mode; an    *)
(* exception thrown by the 'uncaughtException' listener itself ends the    *)
(* process with status 7, an uncaught exception without listener with      *)
(* status 1, and a signal without listener with the signal's default       *)
(* action.                                                                 *)
(***************************************************************************)
EXTENDS Integers, FiniteSets, Sequences, TLC

\* ------------------------------------------------------------- bounds
MaxGrace == 2      \* grace periods 0..MaxGrace
MaxFire == 2       \* cap of the per-listener invocation counter
MaxDeliveries == 2 \* signals and outside exceptions delivered in one run
MaxChildren == 3   \* combine is given 0..MaxChildren services
MaxStarts == 2     \* calls of start() on one KoaService or MonitorService
MaxStops == 2      \* calls of stop() on one KoaService or MonitorService
MaxRequests == 2   \* requests of /ready answered in one run

\* ------------------------------------------------------------- constants
SERVICE_UNAVAILABLE == 503 \* Statuses.SERVICE_UNAVAILABLE
RetryAfter == 30           \* the value written for 'Retry-After'

\* ------------------------------------------------------------- events
signals == {"SIGINT", "SIGTERM", "SIGQUIT"}
uncaughtException == "uncaughtException"
Events == signals \cup {uncaughtException}

\* what one call of stop() or dispose() can do at the call itself
CallOutcomes == {"pending", "throw"}
\* how a pending completion settles
Settlements == {"resolved", "rejected"}

VARIABLES
  pc,            \* position in Graceful.service: new, factory, registered, started
  grace,         \* the grace argument
  rejectionMode, \* runtime: "warn" or "throw" on an unhandled rejection
  running,       \* Graceful.running
  shuttingDown,  \* status.shuttingDown
  listeners,     \* events whose once-listener is still registered
  startState,    \* completion of the wrapped service's start()
  seq,           \* per listener: the shutdown sequence it started
  fired,         \* per listener: how many times it ran
  delivered,     \* signals and outside exceptions delivered so far
  stopCalls,     \* invocations of the wrapped service's stop()
  disposeCalls,  \* invocations of the wrapped service's dispose()
  thrown,        \* an exception escaped a callback and awaits dispatch
  unhandled,     \* rejected completions without handler awaiting dispatch
  exitBy,        \* none, coordinator, signal, uncaughtExternal, uncaughtShutdown, handlerFault
  exitCode,      \* process exit status, -1 while the process lives
  \* Service.combine(...services)
  services,      \* number of child services given to combine
  child,         \* per child and operation: the completion the child returned
  invoked,       \* per child and operation: how many times it was invoked
  aggregate,     \* per operation: the completion the combined service returned
  \* KoaService, MonitorService
  variant,       \* which source of the class is running
  server,        \* this.server: 0 for undefined, else the handle listen() returned
  handle,        \* per handle listen() returned: binding, listening, closing, closed
  middleware,    \* middleware appended with this.use since construction
  starts,        \* per call of start(): how it ended and the handle it waits on
  stops,         \* per call of stop(): its completion and the handle it waits on
  closeCalls,    \* invocations of server.close
  \* graceful(grace, prepare?, finish?) called on its own
  callbacks,     \* which of prepare and finish the caller supplied
  period,         \* the grace argument
  handler,       \* the listener that ran, "none" before
  runs,          \* per call of run(fn, done): fn, its state, calls of done
  timeout,       \* time left on the timer the signal listener armed, -1 unarmed
  exited,        \* argument of process.exit, -1 while the process lives
  \* readinessEndpoint(isReady)
  option,        \* options.isReady: which probe the service was configured with
  request,       \* what the request in flight awaits, "none" without request
  response,      \* the answer to the last request
  served         \* requests answered so far

\* the combined service
combineVars == <<services, child, invoked, aggregate>>
\* the HTTP services
koaVars == <<variant, server, handle, middleware, starts, stops, closeCalls>>
\* graceful with optional callbacks
runVars == <<callbacks, period, handler, runs, timeout, exited>>
\* the /ready endpoint
readyVars == <<option, request, response, served>>

vars == <<pc, grace, rejectionMode, running, shuttingDown, listeners, startState,
          seq, fired, delivered, stopCalls, disposeCalls, thrown, unhandled,
          exitBy, exitCode, combineVars, koaVars, runVars, readyVars>>

\* the other components of the package, which no step of the coordinator touches
outside == <<combineVars, koaVars, runVars, readyVars>>

\* the arguments and the runtime's mode never change
fixed == <<grace, rejectionMode, outside>>
\* the state of Graceful.service
wrapper == <<pc, running, startState>>

\* remaining: time left on the sequence's grace timer; waited: time passed
\* since its stop() settled (counted up to grace); both -1 without a timer
NoSequence == [st |-> "none", stopResult |-> "none", disposeResult |-> "none",
               remaining |-> -1, waited |-> -1]

\* ------------------------------------------------------------- combine
\* the operations of the lifecycle contract
Ops == {"start", "stop", "dispose"}

\* no combined service has been built
NoCombine ==
  /\ services = 0
  /\ child = [c \in {} |-> [op \in Ops |-> "none"]]
  /\ invoked = [c \in {} |-> [op \in Ops |-> 0]]
  /\ aggregate = [op \in Ops |-> "none"]

\* ------------------------------------------------------------- KoaService
\* the sources of the HTTP services: KoaService of koa-service.ts, the later
\* KoaService with dispose(), and MonitorService
Variants == {"koa-service.ts", "package.json", "monitoring-service.ts"}

\* a service constructed and never started
NoKoa ==
  /\ variant = "koa-service.ts"
  /\ server = 0
  /\ handle = <<>>
  /\ middleware = 0
  /\ starts = <<>>
  /\ stops = <<>>
  /\ closeCalls = 0

\* ------------------------------------------------------------- run
\* graceful was given both callbacks and no listener has run
NoRun ==
  /\ callbacks = [fn \in {"prepare", "finish"} |-> TRUE]
  /\ period = 0
  /\ handler = "none"
  /\ runs = <<>>
  /\ timeout = -1
  /\ exited = -1

\* ------------------------------------------------------------- /ready
\* no answer yet: nothing probed, status and headers as the framework made them
NoResponse == [probed |-> "nothing", ready |-> FALSE, status |-> 0,
               header |-> [retryAfter |-> 0]]

\* an endpoint without probe that has answered no request
NoReady ==
  /\ option = "none"
  /\ request = "none"
  /\ response = NoResponse
  /\ served = 0

\* ------------------------------------------------------------- Graceful
\* isReady as the arrow property `() => this.running`: the probe handed to the
\* factory answers with the coordinator's flag
isReady == IF running THEN "true" ELSE "false"

\* isReady as the method `isReady() { return this.running; }` handed to the
\* factory as `this.isReady`: called by the service it has no `this`, and
\* reading `running` of undefined throws
isReady_method == "TypeError"

Init ==
  /\ pc = "new"
  /\ grace \in 0..MaxGrace
  /\ rejectionMode \in {"warn", "throw"}
  /\ running = FALSE
  /\ shuttingDown = FALSE
  /\ listeners = {}
  /\ startState = "none"
  /\ seq = [h \in Events |-> NoSequence]
  /\ fired = [h \in Events |-> 0]
  /\ delivered = 0
  /\ stopCalls = 0
  /\ disposeCalls = 0
  /\ thrown = FALSE
  /\ unhandled = 0
  /\ exitBy = "none"
  /\ exitCode = -1
  /\ NoCombine
  /\ NoKoa
  /\ NoRun
  /\ NoReady

alive == exitBy = "none"
\* the event loop is between turns: nothing raised is waiting for dispatch
idle == alive /\ ~thrown /\ unhandled = 0

\* constructor, first statement: this.service = factory(this.isReady)
Factory ==
  /\ alive /\ pc = "new"
  /\ pc' = "factory"
  /\ UNCHANGED <<fixed, running, startState, shuttingDown, listeners, seq, fired,
                 delivered, stopCalls, disposeCalls, thrown, unhandled, exitBy,
                 exitCode>>

\* a registration step that installs no listener
graceful_noListeners ==
  /\ alive /\ pc = "factory"
  /\ pc' = "registered"
  /\ shuttingDown' = FALSE
  /\ listeners' = {}
  /\ UNCHANGED <<fixed, running, startState, seq, fired, delivered, stopCalls,
                 disposeCalls, thrown, unhandled, exitBy, exitCode>>

\* graceful(grace, prepare, finish): the status record and the four once-listeners
graceful ==
  /\ alive /\ pc = "factory"
  /\ pc' = "registered"
  /\ shuttingDown' = FALSE
  /\ listeners' = Events
  /\ UNCHANGED <<fixed, running, startState, seq, fired, delivered, stopCalls,
                 disposeCalls, thrown, unhandled, exitBy, exitCode>>

\* start() that leaves the flag to a later step
start_keepsRunning ==
  /\ alive /\ pc = "registered"
  /\ pc' = "started"
  /\ running' = running
  /\ startState' = "pending"
  /\ UNCHANGED <<fixed, shuttingDown, listeners, seq, fired, delivered, stopCalls,
                 disposeCalls, thrown, unhandled, exitBy, exitCode>>

\* Graceful.start: this.running = true; return this.service.start()
start ==
  /\ alive /\ pc = "registered"
  /\ pc' = "started"
  /\ running' = TRUE
  /\ startState' = "pending"
  /\ UNCHANGED <<fixed, shuttingDown, listeners, seq, fired, delivered, stopCalls,
                 disposeCalls, thrown, unhandled, exitBy, exitCode>>

\* the wrapped service's start() settles; its completion belongs to the caller
SettleStart(r) ==
  /\ idle /\ startState = "pending"
  /\ startState' = r
  /\ UNCHANGED <<fixed, pc, running, shuttingDown, listeners, seq, fired, delivered,
                 stopCalls, disposeCalls, thrown, unhandled, exitBy, exitCode>>

\* ------------------------------------------------------------- graceful
\* process.on(event, listener): the listener stays registered
on(h, ls) == ls

\* process.once(event, listener): the listener is removed before it runs
once(h, ls) == ls \ {h}

\* a listener that leaves the status record as it found it
shuttingDownUnset == shuttingDown

\* `status.shuttingDown = true`, first statement of every listener
shuttingDownOnEvent == TRUE

\* run(prepare, done) called without waiting for the completion of prepare
run_prepare_noWait(o) ==
  IF o = "throw"
  THEN [NoSequence EXCEPT !.st = "stopThrew"]
  ELSE [NoSequence EXCEPT !.st = "timer", !.remaining = grace, !.waited = 0]

\* run(prepare, done) up to its return: prepare is called; if the call throws,
\* the exception leaves run and done is never called; otherwise done waits for
\* the completion.
run_prepare(o) ==
  IF o = "throw"
  THEN [NoSequence EXCEPT !.st = "stopThrew"]
  ELSE [NoSequence EXCEPT !.st = "stopPending"]

\* run(finish, done) up to its return, in the sequence s
run_finish(s, o) ==
  [s EXCEPT !.st = IF o = "throw" THEN "disposeThrew" ELSE "disposePending"]

\* Promise.all([...]).then(done): done runs on success only
thenRuns(r) == r = "resolved"

\* Promise.all([...]).finally(done): done runs however the completion settled
finallyRuns(r) == TRUE

\* setTimeout(callback, delay) with the delay dropped
setTimeout_noDelay(delay) == 0

\* setTimeout(callback, delay): the time left before the callback may run
setTimeout(delay) == delay

\* every listener passes through the grace timer
graceTimer_always(h) == TRUE

\* the signal listeners put the grace timer between prepare and finish; the
\* 'uncaughtException' listener calls finish from the continuation of prepare
graceTimer(h) == h \in signals

\* process.exit reporting the uncaught exception as a failure
exitStatus_faultFails(h) == IF h = uncaughtException THEN 1 ELSE 0

\* the argument of process.exit in the listener h
exitStatus(h) == 0

\* default action of a signal nobody listens to: the process is killed by it
signalStatus(h) ==
  128 + (CASE h = "SIGINT" -> 2 [] h = "SIGQUIT" -> 3 [] OTHER -> 15)

\* a rejected completion nobody handles: raised as an uncaught exception
\* once the microtasks have run, or only warned about
unhandledRejection(rejected) ==
  IF rejected /\ rejectionMode = "throw" THEN unhandled + 1 ELSE unhandled

\* The 'uncaughtException' event, raised by `cause` (external: code outside the
\* coordinator; shutdown: a fault of stop() or dispose()).  With the listener
\* registered it runs: shuttingDown, then run(prepare, ...); a throw of stop()
\* here is a throw of the exception listener itself.  Without listener the
\* process dies of the exception.
emitUncaught(cause, o) ==
  IF uncaughtException \in listeners
  THEN /\ fired[uncaughtException] < MaxFire
       /\ listeners' = once(uncaughtException, listeners)
       /\ fired' = [fired EXCEPT ![uncaughtException] = @ + 1]
       /\ shuttingDown' = shuttingDownOnEvent
       /\ seq' = [seq EXCEPT ![uncaughtException] = run_prepare(o)]
       /\ stopCalls' = stopCalls + 1
       /\ IF o = "throw"
          THEN exitBy' = "handlerFault" /\ exitCode' = 7
          ELSE UNCHANGED <<exitBy, exitCode>>
  ELSE /\ o = "pending"
       /\ exitBy' = IF cause = "external" THEN "uncaughtExternal" ELSE "uncaughtShutdown"
       /\ exitCode' = 1
       /\ UNCHANGED <<listeners, fired, shuttingDown, seq, stopCalls>>

\* a termination signal arrives: its listener runs, or, the listener gone, the
\* signal's default action ends the process
Signal(h, o) ==
  /\ idle /\ pc = "started"
  /\ delivered < MaxDeliveries
  /\ delivered' = delivered + 1
  /\ IF h \in listeners
     THEN /\ fired[h] < MaxFire
          /\ listeners' = once(h, listeners)
          /\ fired' = [fired EXCEPT ![h] = @ + 1]
          /\ shuttingDown' = shuttingDownOnEvent
          /\ seq' = [seq EXCEPT ![h] = run_prepare(o)]
          /\ stopCalls' = stopCalls + 1
          /\ thrown' = (o = "throw")
          /\ UNCHANGED <<exitBy, exitCode>>
     ELSE /\ o = "pending"
          /\ exitBy' = "signal"
          /\ exitCode' = signalStatus(h)
          /\ UNCHANGED <<listeners, fired, shuttingDown, seq, stopCalls, thrown>>
  /\ UNCHANGED <<fixed, wrapper, disposeCalls, unhandled>>

\* code outside the coordinator lets an exception escape
UncaughtException(o) ==
  /\ idle /\ pc = "started"
  /\ delivered < MaxDeliveries
  /\ delivered' = delivered + 1
  /\ emitUncaught("external", o)
  /\ UNCHANGED <<fixed, wrapper, disposeCalls, thrown, unhandled>>

\* the exception that escaped a listener or a timer callback is dispatched
DispatchThrown(o) ==
  /\ alive /\ thrown
  /\ thrown' = FALSE
  /\ emitUncaught("shutdown", o)
  /\ UNCHANGED <<fixed, wrapper, delivered, disposeCalls, unhandled>>

\* an unhandled rejection is raised as an uncaught exception
DispatchRejection(o) ==
  /\ alive /\ ~thrown /\ unhandled > 0
  /\ unhandled' = unhandled - 1
  /\ emitUncaught("shutdown", o)
  /\ UNCHANGED <<fixed, wrapper, delivered, disposeCalls, thrown>>

\* the completion of stop() settles and the continuation given to finally runs:
\* on a signal's sequence it arms the grace timer, on the exception's sequence
\* it calls run(finish, ...) at once.  A throw of dispose() inside the
\* continuation, like the rejection itself, leaves a rejected completion
\* without handler.
SettleStop(h, r, o) ==
  /\ alive /\ ~thrown
  /\ seq[h].st = "stopPending"
  /\ IF ~finallyRuns(r)
     THEN /\ o = "pending"
          /\ seq' = [seq EXCEPT ![h] = [@ EXCEPT !.st = "stuck", !.stopResult = r]]
          /\ unhandled' = unhandledRejection(r = "rejected")
          /\ UNCHANGED disposeCalls
     ELSE IF graceTimer(h)
     THEN /\ o = "pending"
          /\ seq' = [seq EXCEPT ![h] = [@ EXCEPT !.st = "timer", !.stopResult = r,
                                                 !.waited = 0,
                                                 !.remaining = setTimeout(grace)]]
          /\ unhandled' = unhandledRejection(r = "rejected")
          /\ UNCHANGED disposeCalls
     ELSE /\ seq' = [seq EXCEPT ![h] = run_finish([@ EXCEPT !.stopResult = r], o)]
          /\ disposeCalls' = disposeCalls + 1
          /\ unhandled' = unhandledRejection(r = "rejected" \/ o = "throw")
  /\ UNCHANGED <<fixed, wrapper, shuttingDown, listeners, fired, delivered, stopCalls,
                 thrown, exitBy, exitCode>>

\* the grace timer runs its callback: run(finish, ...); a throw of dispose()
\* escapes the callback
TimerFire(h, o) ==
  /\ idle
  /\ seq[h].st = "timer"
  /\ seq[h].remaining = 0
  /\ seq' = [seq EXCEPT ![h] = run_finish(@, o)]
  /\ disposeCalls' = disposeCalls + 1
  /\ thrown' = (o = "throw")
  /\ UNCHANGED <<fixed, wrapper, shuttingDown, listeners, fired, delivered, stopCalls,
                 unhandled, exitBy, exitCode>>

\* a watchdog: process.exit while the completion of dispose() is pending
SettleDispose_watchdog(h, r) ==
  /\ alive /\ ~thrown
  /\ seq[h].st = "disposePending"
  /\ seq' = [seq EXCEPT ![h] = [@ EXCEPT !.st = "exited"]]
  /\ exitBy' = "coordinator"
  /\ exitCode' = exitStatus(h)
  /\ UNCHANGED <<fixed, wrapper, shuttingDown, listeners, fired, delivered, stopCalls,
                 disposeCalls, thrown, unhandled>>

\* the completion of dispose() settles and the last continuation calls
\* process.exit
SettleDispose(h, r) ==
  /\ alive /\ ~thrown
  /\ seq[h].st = "disposePending"
  /\ IF finallyRuns(r)
     THEN /\ seq' = [seq EXCEPT ![h] = [@ EXCEPT !.st = "exited", !.disposeResult = r]]
          /\ exitBy' = "coordinator"
          /\ exitCode' = exitStatus(h)
          /\ UNCHANGED unhandled
     ELSE /\ seq' = [seq EXCEPT ![h] = [@ EXCEPT !.st = "stuck", !.disposeResult = r]]
          /\ unhandled' = unhandledRejection(r = "rejected")
          /\ UNCHANGED <<exitBy, exitCode>>
  /\ UNCHANGED <<fixed, wrapper, shuttingDown, listeners, fired, delivered, stopCalls,
                 disposeCalls, thrown>>

\* one unit of time passes between two turns of the loop: every armed grace
\* timer comes one unit closer.  Time that passes while nothing is armed
\* changes nothing the coordinator holds.
Tick ==
  /\ idle /\ pc = "started"
  /\ \E h \in Events : seq[h].st = "timer" /\ seq[h].remaining > 0
  /\ seq' = [h \in Events |->
               IF seq[h].st = "timer"
               THEN [seq[h] EXCEPT
                       !.remaining = IF @ > 0 THEN @ - 1 ELSE 0,
                       !.waited = IF @ < grace THEN @ + 1 ELSE @]
               ELSE seq[h]]
  /\ UNCHANGED <<fixed, wrapper, shuttingDown, listeners, fired, delivered,
                 stopCalls, disposeCalls, thrown, unhandled, exitBy, exitCode>>

Next ==
  \/ Factory
  \/ graceful
  \/ start
  \/ \E r \in Settlements : SettleStart(r)
  \/ \E h \in signals, o \in CallOutcomes : Signal(h, o)
  \/ \E o \in CallOutcomes : UncaughtException(o)
  \/ \E o \in CallOutcomes : DispatchThrown(o)
  \/ \E o \in CallOutcomes : DispatchRejection(o)
  \/ \E h \in Events, r \in Settlements, o \in CallOutcomes : SettleStop(h, r, o)
  \/ \E h \in Events, o \in CallOutcomes : TimerFire(h, o)
  \/ \E h \in Events, r \in Settlements : SettleDispose(h, r)
  \/ Tick

Spec == Init /\ [][Next]_vars

\* The event loop runs every turn that is ready: a settled completion's
\* continuation, an expired timer, a raised exception; and time passes.  The
\* arrival of signals and outside exceptions is under no obligation.
Fairness ==
  /\ WF_vars(Tick)
  /\ WF_vars(\E h \in Events, r \in Settlements, o \in CallOutcomes : SettleStop(h, r, o))
  /\ WF_vars(\E h \in Events, o \in CallOutcomes : TimerFire(h, o))
  /\ WF_vars(\E h \in Events, r \in Settlements : SettleDispose(h, r))
  /\ WF_vars(\E o \in CallOutcomes : DispatchThrown(o))
  /\ WF_vars(\E o \in CallOutcomes : DispatchRejection(o))

LiveSpec == Init /\ [][Next]_vars /\ Fairness

\* ------------------------------------------------------------- combine
\* Service.combine(...services): the aggregate of the lifecycle contract.  Each
\* operation of the aggregate invokes the same operation on every child in the
\* same turn and waits for every child's completion; the children then settle
\* in any order.

\* no coordinator is at work beside the component studied
NoCoordinator ==
  /\ pc = "new"
  /\ grace = 0
  /\ rejectionMode = "warn"
  /\ running = FALSE
  /\ shuttingDown = FALSE
  /\ listeners = {}
  /\ startState = "none"
  /\ seq = [h \in Events |-> NoSequence]
  /\ fired = [h \in Events |-> 0]
  /\ delivered = 0
  /\ stopCalls = 0
  /\ disposeCalls = 0
  /\ thrown = FALSE
  /\ unhandled = 0
  /\ exitBy = "none"
  /\ exitCode = -1

coordinatorVars == <<pc, grace, rejectionMode, running, shuttingDown, listeners,
                     startState, seq, fired, delivered, stopCalls, disposeCalls,
                     thrown, unhandled, exitBy, exitCode>>

\* what no step of the combined service touches
notCombine == <<coordinatorVars, koaVars, runVars, readyVars>>

\* the children, in registration order
Children == 1..services

\* the operations a caller of the lifecycle has issued before op
before(op) ==
  CASE op = "start" -> {}
    [] op = "stop" -> {"start"}
    [] op = "dispose" -> {"start", "stop"}

\* a fan-out that reaches the first child only
receivers_first == Children \cap {1}

\* the children that receive the aggregate's call: all of them
receivers == Children

\* fail-fast join: the aggregate settles at the first rejection
joined_failFast(op) ==
  \/ \E c \in Children : child[c][op] = "rejected"
  \/ \A c \in Children : child[c][op] \in Settlements

\* settle-all join: every child's completion has settled, success or failure
joined(op) == \A c \in Children : child[c][op] \in Settlements

\* the aggregate's outcome: the failure of a child is the aggregate's failure
outcome(op) ==
  IF \E c \in Children : child[c][op] = "rejected" THEN "rejected" ELSE "resolved"

CombineInit ==
  /\ NoCoordinator
  /\ NoReady
  /\ NoKoa
  /\ NoRun
  /\ services \in 0..MaxChildren
  /\ child = [c \in Children |-> [op \in Ops |-> "none"]]
  /\ invoked = [c \in Children |-> [op \in Ops |-> 0]]
  /\ aggregate = [op \in Ops |-> "none"]

\* combine(...).start(), .stop(), .dispose(): the operation is invoked on every
\* child and the aggregate's completion is returned pending
Call(op) ==
  /\ aggregate[op] = "none"
  /\ \A b \in before(op) : aggregate[b] \in Settlements
  /\ child' = [c \in Children |->
                 IF c \in receivers THEN [child[c] EXCEPT ![op] = "pending"] ELSE child[c]]
  /\ invoked' = [c \in Children |->
                   IF c \in receivers THEN [invoked[c] EXCEPT ![op] = @ + 1] ELSE invoked[c]]
  /\ aggregate' = [aggregate EXCEPT ![op] = "pending"]
  /\ UNCHANGED <<services, notCombine>>

\* the completion of one child's operation settles
SettleChild(c, op, r) ==
  /\ child[c][op] = "pending"
  /\ child' = [child EXCEPT ![c][op] = r]
  /\ UNCHANGED <<services, invoked, aggregate, notCombine>>

\* the join is complete and the aggregate's completion settles
SettleAggregate(op) ==
  /\ aggregate[op] = "pending"
  /\ joined(op)
  /\ aggregate' = [aggregate EXCEPT ![op] = outcome(op)]
  /\ UNCHANGED <<services, child, invoked, notCombine>>

CombineNext ==
  \/ \E op \in Ops : Call(op)
  \/ \E c \in Children, op \in Ops, r \in Settlements : SettleChild(c, op, r)
  \/ \E op \in Ops : SettleAggregate(op)

CombineSpec == CombineInit /\ [][CombineNext]_vars

\* ------------------------------------------------------------- KoaService
\* start() and stop() of the HTTP services on the event loop.  listen()
\* returns the handle at once and calls back once the port is bound;
\* server.close(callback) stops the handle and calls back when it has closed,
\* with an error when the server was not open at the time of the call.

\* what no step of the HTTP services touches
notKoa == <<coordinatorVars, combineVars, runVars, readyVars>>

KoaInit ==
  /\ NoCoordinator
  /\ NoReady
  /\ NoCombine
  /\ NoRun
  /\ variant \in Variants
  /\ server = 0
  /\ handle = <<>>
  /\ middleware = 0
  /\ starts = <<>>
  /\ stops = <<>>
  /\ closeCalls = 0

\* start() begins with `if (this.server) throw new Error('Already started')`
guarded == variant \in {"koa-service.ts", "monitoring-service.ts"}

\* startServer(), the executor of the promise start() returns: with a server
\* held it rejects, otherwise listen() creates the handle and this.server holds
\* it while the port is being bound
startServer ==
  IF server # 0
  THEN /\ starts' = Append(starts, [st |-> "rejected", on |-> 0])
       /\ UNCHANGED <<server, handle>>
  ELSE /\ handle' = Append(handle, "binding")
       /\ server' = Len(handle) + 1
       /\ starts' = Append(starts, [st |-> "pending", on |-> Len(handle) + 1])

\* start(): the guard where the source has one, then the router is mounted
\* (this.use(router.routes()); this.use(router.allowedMethods())), then
\* startServer()
KoaService_start ==
  /\ Len(starts) < MaxStarts
  /\ IF guarded /\ server # 0
     THEN /\ starts' = Append(starts, [st |-> "threw", on |-> 0])
          /\ UNCHANGED <<server, handle, middleware>>
     ELSE /\ middleware' = middleware + 2
          /\ startServer
  /\ UNCHANGED <<variant, stops, closeCalls, notKoa>>

\* the callback of listen(): the port is bound and the completion of the
\* start() that created the handle resolves
listenCallback(k) ==
  /\ k \in DOMAIN handle
  /\ handle[k] = "binding"
  /\ handle' = [handle EXCEPT ![k] = "listening"]
  /\ starts' = [i \in DOMAIN starts |->
                  IF starts[i].on = k THEN [starts[i] EXCEPT !.st = "resolved"]
                  ELSE starts[i]]
  /\ UNCHANGED <<variant, server, middleware, stops, closeCalls, notKoa>>

\* stop() (destroy() of MonitorService): without server the completion
\* resolves at once; otherwise server.close(callback).  On an open handle the
\* close begins; on a handle already closing the callback will be given the
\* error of a server that is not running.
KoaService_stop ==
  /\ Len(stops) < MaxStops
  /\ IF server = 0
     THEN /\ stops' = Append(stops, [st |-> "resolved", on |-> 0, err |-> FALSE])
          /\ UNCHANGED <<handle, closeCalls>>
     ELSE /\ closeCalls' = closeCalls + 1
          /\ stops' = Append(stops, [st |-> "pending", on |-> server,
                                     err |-> handle[server] \notin {"binding", "listening"}])
          /\ handle' = [handle EXCEPT ![server] =
                          IF @ \in {"binding", "listening"} THEN "closing" ELSE @]
  /\ UNCHANGED <<variant, server, middleware, starts, notKoa>>

\* the handle has closed and the callbacks given to close run: with an error
\* the completion rejects, without it this.server is cleared and the
\* completion resolves
closeCallback(k) ==
  /\ k \in DOMAIN handle
  /\ handle[k] = "closing"
  /\ handle' = [handle EXCEPT ![k] = "closed"]
  /\ stops' = [i \in DOMAIN stops |->
                 IF stops[i].on = k /\ stops[i].st = "pending"
                 THEN [stops[i] EXCEPT !.st = IF stops[i].err THEN "rejected" ELSE "resolved"]
                 ELSE stops[i]]
  /\ server' = IF \E i \in DOMAIN stops : stops[i].on = k /\ ~stops[i].err
               THEN 0 ELSE server
  /\ UNCHANGED <<variant, middleware, starts, closeCalls, notKoa>>

KoaNext ==
  \/ KoaService_start
  \/ \E k \in 1..MaxStarts : listenCallback(k)
  \/ KoaService_stop
  \/ \E k \in 1..MaxStarts : closeCallback(k)

KoaSpec == KoaInit /\ [][KoaNext]_vars

\* ------------------------------------------------------------- run
\* graceful(grace, prepare, finish) with either callback left out, followed
\* through the sequence of one listener.

\* what no step of this sequence touches
notRun == <<coordinatorVars, combineVars, koaVars, readyVars>>

RunInit ==
  /\ NoCoordinator
  /\ NoReady
  /\ NoCombine
  /\ NoKoa
  /\ callbacks \in [{"prepare", "finish"} -> BOOLEAN]
  /\ period \in 0..MaxGrace
  /\ handler = "none"
  /\ runs = <<>>
  /\ timeout = -1
  /\ exited = -1

\* run(fn, done) up to its return, as the record of the call: without fn,
\* done is called before run returns; otherwise fn is called, and either it
\* throws, which leaves run before done is attached, or done is attached to
\* its completion with finally
run(fn, o) ==
  IF ~callbacks[fn]
  THEN [fn |-> fn, st |-> "absent", done |-> 1]
  ELSE [fn |-> fn, st |-> IF o = "throw" THEN "threw" ELSE "pending", done |-> 0]

\* the completion the call waits for settles: finally calls done
settled(call, r) == [call EXCEPT !.st = r, !.done = @ + 1]

\* what the outcome o means for the callback fn: nothing to choose without it
applies(fn, o) == callbacks[fn] \/ o = "pending"

\* run(finish, () => process.exit(0)), appended to the calls rs
runFinish(rs, o) ==
  LET call == run("finish", o) IN
  /\ runs' = Append(rs, call)
  /\ exited' = IF call.done = 1 THEN 0 ELSE exited

\* the continuation given to run(prepare, ...): the signal listeners arm the
\* timer, the exception listener goes on to run(finish, ...)
afterPrepare(h, rs, o) ==
  IF h \in signals
  THEN /\ o = "pending"
       /\ runs' = rs
       /\ timeout' = period
       /\ UNCHANGED exited
  ELSE /\ applies("finish", o)
       /\ runFinish(rs, o)
       /\ UNCHANGED timeout

\* a listener runs: run(prepare, ...)
Listener(h, o, o2) ==
  /\ handler = "none"
  /\ handler' = h
  /\ applies("prepare", o)
  /\ LET call == run("prepare", o) IN
     IF call.done = 1
     THEN afterPrepare(h, <<call>>, o2)
     ELSE /\ o2 = "pending"
          /\ runs' = <<call>>
          /\ UNCHANGED <<timeout, exited>>
  /\ UNCHANGED <<callbacks, period, notRun>>

\* the completion of prepare() settles
SettlePrepare(r, o) ==
  /\ exited = -1
  /\ Len(runs) = 1
  /\ runs[1].st = "pending"
  /\ afterPrepare(handler, <<settled(runs[1], r)>>, o)
  /\ UNCHANGED <<callbacks, period, handler, notRun>>

\* time passes on the armed timer
RunTick ==
  /\ exited = -1
  /\ timeout > 0
  /\ timeout' = timeout - 1
  /\ UNCHANGED <<callbacks, period, handler, runs, exited, notRun>>

\* the timer's callback: run(finish, ...)
Timeout(o) ==
  /\ exited = -1
  /\ timeout = 0
  /\ timeout' = -1
  /\ applies("finish", o)
  /\ runFinish(runs, o)
  /\ UNCHANGED <<callbacks, period, handler, notRun>>

\* the completion of finish() settles: process.exit(0)
SettleFinish(r) ==
  /\ exited = -1
  /\ Len(runs) = 2
  /\ runs[2].st = "pending"
  /\ runs' = [runs EXCEPT ![2] = settled(@, r)]
  /\ exited' = 0
  /\ UNCHANGED <<callbacks, period, handler, timeout, notRun>>

RunNext ==
  \/ \E h \in Events, o \in CallOutcomes, o2 \in CallOutcomes : Listener(h, o, o2)
  \/ \E r \in Settlements, o \in CallOutcomes : SettlePrepare(r, o)
  \/ RunTick
  \/ \E o \in CallOutcomes : Timeout(o)
  \/ \E r \in Settlements : SettleFinish(r)

RunSpec == RunInit /\ [][RunNext]_vars

\* ------------------------------------------------------------- /ready
\* readinessEndpoint(isReady), the handler of GET /ready, beside the Graceful
\* wrapper whose probe it may have been given.  The handler is asynchronous:
\* it calls the probe, waits for what the probe returned and answers in a
\* later turn.

\* options.isReady: left out; a probe of the service's own that answers true
\* or false, throws, or rejects; the coordinator's probe as arrow property or
\* as detached method
Probes == {"none", "boolean", "throws", "rejects", "probe", "probe_method"}

ReadyInit ==
  /\ NoCoordinator
  /\ NoCombine
  /\ NoKoa
  /\ NoRun
  /\ option \in Probes
  /\ request = "none"
  /\ response = NoResponse
  /\ served = 0

\* the call isReady(), v being the answer of a probe of the service's own
call(v) ==
  CASE option = "boolean" -> v
    [] option = "throws" -> "throw"
    [] option = "rejects" -> "rejected"
    [] option = "probe" -> isReady
    [] option = "probe_method" -> isReady_method

\* the headers a response sends: ctx.response.headers hands out a copy of
\* them, and what is written to the copy stays there
outgoing(held, copy) == held

\* from `ctx.body = { ready }` on: the body, the status when not ready, and
\* the assignment of 'Retry-After' to ctx.response.headers
answer(probed, ready) ==
  LET copy == [NoResponse.header EXCEPT !.retryAfter = IF ready THEN @ ELSE RetryAfter]
  IN [probed |-> probed,
      ready |-> ready,
      status |-> IF ready THEN NoResponse.status ELSE SERVICE_UNAVAILABLE,
      header |-> outgoing(NoResponse.header, copy)]

\* GET /ready: `ready = isReady ? await isReady() : true`.  Without probe, and
\* when the call throws (caught: ready = false), the handler goes on in the
\* same turn; otherwise it waits for what the call returned.  The endpoint
\* can be asked once the factory has built the service: a factory may hand
\* over a service that listens already.
Get(v) ==
  /\ pc # "new"
  /\ request = "none"
  /\ served < MaxRequests
  /\ IF option = "none"
     THEN /\ v = "true"
          /\ response' = answer("none", TRUE)
          /\ served' = served + 1
          /\ UNCHANGED request
     ELSE IF call(v) \in {"throw", "TypeError"}
     THEN /\ v = "true"
          /\ response' = answer(call(v), FALSE)
          /\ served' = served + 1
          /\ UNCHANGED request
     ELSE /\ option = "boolean" \/ v = "true"
          /\ request' = call(v)
          /\ UNCHANGED <<response, served>>
  /\ UNCHANGED <<option, coordinatorVars, combineVars, koaVars, runVars>>

\* the awaited value arrives, or the rejection is caught, and the handler
\* answers
Resume ==
  /\ request # "none"
  /\ response' = answer(request, request = "true")
  /\ served' = served + 1
  /\ request' = "none"
  /\ UNCHANGED <<option, coordinatorVars, combineVars, koaVars, runVars>>

ReadyNext ==
  \/ Factory
  \/ graceful
  \/ start
  \/ \E r \in Settlements : SettleStart(r)
  \/ \E v \in {"true", "false"} : Get(v)
  \/ Resume

ReadySpec == ReadyInit /\ [][ReadyNext]_vars

\* ------------------------------------------------------------- properties
\* the sequence s has called dispose()
disposeInvoked(s) ==
  s.st \in {"disposePending", "disposeThrew", "exited"} \/ s.disposeResult # "none"

\* the completion of the sequence's stop() has settled
stopSettled(s) == s.stopResult \in Settlements

\* some call of stop() or dispose() threw instead of returning a completion
syncFault == \E h \in Events : seq[h].st \in {"stopThrew", "disposeThrew"}

\* C1: in the sequence a signal or an uncaught exception started, dispose() is
\* invoked only once the completion of that sequence's stop() has settled,
\* resolved or rejected, never while it is pending.
C1_DisposeAfterStopSettled ==
  \A h \in Events : disposeInvoked(seq[h]) => stopSettled(seq[h])

C1_Witness ==
  /\ \E h \in signals : disposeInvoked(seq[h]) /\ seq[h].stopResult = "rejected"
  /\ disposeInvoked(seq[uncaughtException])
  /\ seq[uncaughtException].stopResult = "resolved"

\* C2: for every grace period, a signal's sequence arms the grace timer only
\* once its stop() has settled, and the step in which it invokes dispose() is
\* taken from the armed timer no earlier than grace time units after that
\* settlement.
C2_DisposeAfterGrace ==
  \A h \in signals :
    /\ seq[h].st = "timer" => (stopSettled(seq[h]) /\ seq[h].waited >= 0)
    /\ disposeInvoked(seq[h]) => (stopSettled(seq[h]) /\ seq[h].waited >= grace)

C2_Witness ==
  /\ grace = MaxGrace
  /\ \E h \in signals : seq[h].st = "disposePending" /\ seq[h].waited = MaxGrace
  /\ \E h \in signals : seq[h].st = "timer" /\ seq[h].waited < grace

\* C3: once a signal or an uncaught exception has been received, the readiness
\* probe handed to the factory returns false in every later state.
C3_ProbeFalseOnceShuttingDown == shuttingDown => isReady = "false"

\* C4: the sequence of the uncaught exception has no grace timer: whatever the
\* grace period, dispose() is invoked in the step in which its stop() settles,
\* and the process has exited in the step in which its dispose() settles.
C4_FaultPathNoGrace ==
  LET s == seq[uncaughtException] IN
  /\ s.st # "timer"
  /\ s.remaining = -1
  /\ stopSettled(s) => disposeInvoked(s)
  /\ s.disposeResult # "none" => ~alive

C4_Witness ==
  /\ grace = MaxGrace
  /\ seq[uncaughtException].st = "exited"

\* C5: whatever stop() and dispose() do (resolve, reject, throw at the call),
\* dispose() is still invoked after stop() and process.exit(0) is still
\* reached: a process that a shutdown sequence has ended ended with dispose()
\* called and through process.exit(0).
C5_FaultsDoNotStopShutdown ==
  (~alive /\ exitBy \notin {"signal", "uncaughtExternal"}) =>
    /\ disposeCalls > 0
    /\ exitBy = "coordinator"
    /\ exitCode = 0

C7_CoordinatorExitsZero == exitBy = "coordinator" => exitCode = 0

C7_Witness ==
  /\ exitBy = "coordinator"
  /\ seq[uncaughtException].st = "exited"
  /\ seq[uncaughtException].stopResult = "rejected"
  /\ seq[uncaughtException].disposeResult = "rejected"

\* C8: shuttingDown is false until the first listener runs, is true as soon
\* as a listener has run and before its stop() is invoked, never goes back to
\* false, and changes in no step other than a listener's.
C8_ShuttingDownMonotonic ==
  [][/\ shuttingDown => shuttingDown'
     /\ shuttingDown' # shuttingDown => \E h \in Events : fired'[h] = fired[h] + 1
     /\ (\E h \in Events : fired'[h] # fired[h]) => shuttingDown'
     /\ shuttingDown' <=> (\E h \in Events : fired'[h] > 0)
     /\ stopCalls' > 0 => shuttingDown']_vars

C8_Witness ==
  /\ shuttingDown
  /\ exitBy = "coordinator"
  /\ fired[uncaughtException] = 1
  /\ \E h \in signals : fired[h] = 1

\* C9: each of the four listeners runs at most once; a second delivery of the
\* same event runs no listener and starts no further stop()/dispose() sequence.
C9_ListenersRunOnce ==
  /\ \A h \in Events : fired[h] <= 1
  /\ stopCalls = Cardinality({h \in Events : fired[h] > 0})
  /\ disposeCalls <= stopCalls

C9_Witness ==
  /\ exitBy = "signal"
  /\ delivered = 2
  /\ stopCalls = 1
  /\ \E h \in signals : fired[h] = 1 /\ seq[h].st = "timer"

C11_AggregateWaitsForAll ==
  \A op \in Ops :
    /\ aggregate[op] \in Settlements =>
         \A c \in Children : child[c][op] \in Settlements
    /\ (\E c \in Children : child[c][op] = "pending") => aggregate[op] = "pending"

C11_Witness ==
  /\ services = MaxChildren
  /\ aggregate["start"] = "resolved"
  /\ aggregate["stop"] = "rejected"
  /\ child[1]["stop"] = "rejected"
  /\ child[services]["stop"] = "resolved"

\* C12: once an operation of the combined service has been called, every
\* child has been invoked with that operation exactly once, whichever children
\* failed it or an earlier operation and in whatever order they settled.
C12_EveryChildInvokedOnce ==
  \A op \in Ops : \A c \in Children :
    /\ aggregate[op] # "none" => invoked[c][op] = 1 /\ child[c][op] # "none"
    /\ aggregate[op] = "none" => invoked[c][op] = 0

C12_Witness ==
  /\ services = MaxChildren
  /\ child[1]["start"] = "rejected"
  /\ child[2]["stop"] = "rejected"
  /\ \A c \in Children : invoked[c]["dispose"] = 1

\* C13: a call of start() on a service that holds a server, the first listen
\* having called back or not, ends in a synchronous throw, creates no handle
\* and leaves this.server as it was.
C13_AlreadyStartedThrows ==
  [][(Len(starts') > Len(starts) /\ server # 0) =>
       /\ starts'[Len(starts')].st = "threw"
       /\ handle' = handle
       /\ server' = server]_vars

\* C14: on a KoaService, stop() without server resolves and touches nothing;
\* no stop() ends rejected, whether a second call came after the first
\* resolved or while the first was still closing; and server.close is called
\* once per handle, by the first of the calls that found it.
C14_StopIdempotent ==
  variant # "monitoring-service.ts" =>
    /\ \A i \in DOMAIN stops : stops[i].st # "rejected"
    /\ \A i \in DOMAIN stops : stops[i].on = 0 => stops[i].st = "resolved"
    /\ closeCalls <= Len(handle)
    /\ closeCalls = Cardinality({stops[i].on : i \in DOMAIN stops} \ {0})

\* C15: the coordinator has called process.exit only in states where the
\* sequence that did so had invoked dispose() and the completions of its
\* stop() and of its dispose() had both settled; while every sequence still
\* waits for a completion or for its timer, the coordinator has not exited.
C15_ExitOnlyAfterDisposeSettled ==
  /\ exitBy = "coordinator" =>
       \E h \in Events :
         /\ seq[h].st = "exited"
         /\ stopSettled(seq[h])
         /\ seq[h].disposeResult \in Settlements
         /\ disposeCalls > 0
  /\ (\A h \in Events : seq[h].st # "exited") => exitBy # "coordinator"

C15_Witness ==
  /\ exitBy = "coordinator"
  /\ grace = MaxGrace
  /\ \E h \in signals : seq[h].st = "exited" /\ seq[h].disposeResult = "rejected"
  /\ seq[uncaughtException].st = "none"

\* C16: construction runs in one order: while the factory has not been
\* called, and during its call, no listener is registered, running is false
\* and start() has not been invoked; the four listeners are registered
\* before running is set and start() is invoked; so while start() is pending
\* every listener is registered or has already run.
C16_ConstructionOrder ==
  /\ pc \in {"new", "factory"} =>
       (listeners = {} /\ ~running /\ startState = "none" /\ stopCalls = 0)
  /\ pc = "registered" => (listeners = Events /\ ~running /\ startState = "none")
  /\ (running \/ startState # "none") => pc = "started"
  /\ startState = "pending" => \A h \in Events : h \in listeners \/ fired[h] > 0

C16_Witness ==
  /\ startState = "pending"
  /\ running
  /\ \E h \in signals : disposeInvoked(seq[h])

\* C17: without prepare the signal listener arms the timer in its own step;
\* without finish the process exits with 0 in the step in which the timer
\* fires, or, on the exception's sequence, in the step in which prepare
\* settles; and every call of run whose callback is absent or has come to an
\* end (settled, or thrown) has called done exactly once, no call more.
C17_MissingCallbackIsComplete ==
  [][/\ (handler = "none" /\ handler' \in signals /\ ~callbacks["prepare"]) =>
          (timeout' = period /\ runs'[1].done = 1)
     /\ (timeout = 0 /\ timeout' = -1 /\ ~callbacks["finish"]) => exited' = 0
     /\ (/\ handler = uncaughtException /\ ~callbacks["finish"]
         /\ Len(runs) = 1 /\ runs[1].st = "pending" /\ runs'[1].st \in Settlements) =>
          exited' = 0
     /\ \A i \in DOMAIN runs' :
          /\ runs'[i].done <= 1
          /\ runs'[i].st # "pending" => runs'[i].done = 1]_vars

\* C18: every answer of /ready has ready = true when no probe is configured
\* or the probe answered true, and ready = false when it answered false,
\* threw or rejected; its status is 503 exactly when ready is false, and it
\* carries Retry-After 30 exactly then; and with the coordinator's probe every
\* answer given while running is false has status 503.
C18_ReadyEndpoint ==
  response # NoResponse =>
    /\ response.ready <=> response.probed \in {"none", "true"}
    /\ option = "none" <=> response.probed = "none"
    /\ response.status = SERVICE_UNAVAILABLE <=> ~response.ready
    /\ (option \in {"probe", "probe_method"} /\ ~running) =>
         response.status = SERVICE_UNAVAILABLE
    /\ response.header.retryAfter = RetryAfter <=> ~response.ready

\* C19: whatever signals and exceptions are delivered, the wrapped service's
\* stop() has been invoked at most once and its dispose() at most once.
C19_FirstFiredWins == stopCalls <= 1 /\ disposeCalls <= 1

\* the signal's sequence is under way: its stop() is pending, or its grace
\* timer has not yet run for the grace period
underWay(h) ==
  \/ seq[h].st = "stopPending"
  \/ seq[h].st = "timer" /\ seq[h].waited < grace

\* C20: while the sequence a signal started is under way, the sequence of an
\* uncaught exception raised after that signal has not invoked dispose() and
\* has not ended the process.  (With one delivery made and the signal's
\* listener run, the delivery was the signal: the exception was raised later,
\* by the shutdown itself.)
C20_NotCutShort ==
  \A h \in signals :
    (underWay(h) /\ delivered = 1) =>
      /\ ~disposeInvoked(seq[uncaughtException])
      /\ seq[uncaughtException].st # "exited"

\* the step is a call of start() that failed with 'Already started', thrown
\* or as a rejected completion
alreadyStarted ==
  /\ Len(starts') = Len(starts) + 1
  /\ starts'[Len(starts')].st \in {"threw", "rejected"}

\* C21: a call of KoaService.start() that fails with 'Already started' leaves
\* the service as it was: this.server holds the same handle, no handle has
\* been created, and the middleware chain has the length it had.
C21_FailedStartChangesNothing ==
  [][(variant # "monitoring-service.ts" /\ alreadyStarted) =>
       /\ server' = server
       /\ handle' = handle
       /\ middleware' = middleware]_vars
====
